---- MODULE Spec2Model ----
(***************************************************************************)
(* Training harness of the Siamese network                                 *)
(* (src/recognition/TongQiu_Siamese/train.py): the epoch drivers           *)
(* main_contrastive / main_triplet, the per-epoch steps train_* and        *)
(* validate_*, the margin adaptation of train_contrastive and              *)
(* ContrastiveLoss.forward.                                                *)
(*                                                                         *)
(* Floating point values are modelled as exact rationals <<num, den>> in   *)
(* lowest terms (den > 0).  The embedding model, the optimizer and the     *)
(* data loaders are external: what they deliver (the pairwise distances    *)
(* and the labels of each batch) is input, drawn from small sets.          *)
(***************************************************************************)
EXTENDS Integers, Sequences, FiniteSets, TLC

VARIABLES
    variant,        \* "contrastive" or "triplet": which driver / step pair runs
    caller,         \* "main": the steps run under the epoch driver; "direct": one step called on its own
    epochs,         \* the epochs argument of main_*
    train_size,     \* number of samples train_loader yields in one pass
    val_size,       \* number of samples val_loader yields in one pass
    pc,             \* control position
    epoch,          \* loop variable of `for epoch in range(epochs)`
    margin,         \* criterion.margin
    best_score,     \* best_score of main_*
    checkpoint,     \* what torch.save last wrote to Config.MODEL_DIR
    saves,          \* history: number of torch.save calls so far
    writer,         \* the add_scalar calls received by the SummaryWriter, in order
    remaining,      \* samples the loader iterated by the running step has not yielded yet
    batch,          \* the batch being processed: distances and labels
    train_loss_lis, \* train_loss_lis of train_*
    total_loss,     \* total_loss of validate_*
    n_batches,      \* batches yielded so far by the loader of the running step
    correct_predictions,
    total_samples,
    negative_pairs_below_margin,
    total_negative_pairs,
    train_batch_loss, train_batch_acc,  \* what train_* returned
    val_batch_loss, val_batch_acc,      \* what validate_* returned
    raised,         \* "none", or the expression whose evaluation raised ZeroDivisionError
    margin_before,  \* history: criterion.margin on entry of the running train_contrastive
    thresholds,     \* history: the thresholds the batches of the running step were compared with
    lossIn,         \* arguments of the last ContrastiveLoss.forward call made on its own
    lossOut         \* its per-pair terms and its result

vars == <<variant, caller, epochs, train_size, val_size, pc, epoch, margin,
          best_score, checkpoint, saves, writer, remaining, batch, train_loss_lis,
          total_loss, n_batches, correct_predictions, total_samples,
          negative_pairs_below_margin, total_negative_pairs,
          train_batch_loss, train_batch_acc, val_batch_loss, val_batch_acc,
          raised, margin_before, thresholds, lossIn, lossOut>>

-----------------------------------------------------------------------------
(* Bounds of the model *)

MaxEpochs == 2
MaxPairs == 1
MaxPassPairs == 3
MaxEpochPairs == 10
MaxLossBatch == 2
MaxD == 3
MaxM == 3

-----------------------------------------------------------------------------
(* Exact rational arithmetic standing for the float arithmetic of the code *)

Abs(x) == IF x < 0 THEN -x ELSE x

RECURSIVE GCD(_, _)
GCD(a, b) == IF b = 0 THEN a ELSE GCD(b, a % b)

Rat(n, d) == LET g == GCD(Abs(n), d) IN <<n \div g, d \div g>>

Zero == <<0, 1>>
One == <<1, 1>>
FromInt(n) == <<n, 1>>

RatAdd(a, b) ==
    LET l == (a[2] \div GCD(a[2], b[2])) * b[2]
    IN  Rat(a[1] * (l \div a[2]) + b[1] * (l \div b[2]), l)

RatSub(a, b) == RatAdd(a, <<-b[1], b[2]>>)

RatMul(a, b) ==
    LET g1 == GCD(Abs(a[1]), b[2])
        g2 == GCD(Abs(b[1]), a[2])
    IN  Rat((a[1] \div g1) * (b[1] \div g2), (a[2] \div g2) * (b[2] \div g1))

RatDivInt(a, n) ==
    LET g == GCD(Abs(a[1]), n)
    IN  Rat(a[1] \div g, a[2] * (n \div g))

RatLess(a, b) == a[1] * b[2] < b[1] * a[2]

RECURSIVE SumRat(_, _)
SumRat(f, n) == IF n = 0 THEN Zero ELSE RatAdd(SumRat(f, n - 1), f[n])

RECURSIVE SumInt(_, _)
SumInt(f, n) == IF n = 0 THEN 0 ELSE SumInt(f, n - 1) + f[n]

-----------------------------------------------------------------------------
(* ContrastiveLoss.forward *)

ClampNoMin(x) == x

\* torch.clamp(x, min=0.0)
Clamp0(x) == IF RatLess(x, Zero) THEN Zero ELSE x

\* (1 - label) * d^2 + label * clamp(margin - d, min=0)^2 for one pair
LossTerm(d, label, m) ==
    LET c == Clamp0(RatSub(m, d))
    IN  RatAdd(RatMul(FromInt(1 - label), RatMul(d, d)),
               RatMul(FromInt(label), RatMul(c, c)))

LossTerms(dists, labels, m) ==
    [i \in DOMAIN dists |-> LossTerm(dists[i], labels[i], m)]

\* torch.mean over the batch
Forward(dists, labels, m) ==
    RatDivInt(SumRat(LossTerms(dists, labels, m), Len(dists)), Len(dists))

-----------------------------------------------------------------------------
(* What the external collaborators deliver *)

\* pairwise distances the embedding model may produce (F.pairwise_distance)
Dists == {<<0, 1>>, <<9, 20>>, <<1, 2>>}

\* anchor-positive / anchor-negative distances of the triplet model
TripletDists == {<<9, 20>>, <<1, 2>>}

\* binary labels of the datasets
Labels == {0, 1}

\* values torch.nn.TripletMarginLoss (library code) may return for a batch
TripletLossVals == {<<0, 1>>, <<1, 1>>}

\* criterion = ContrastiveLoss(margin=0.5)
InitialMargin == <<1, 2>>

None == <<>>
NoBatch == [dists |-> <<>>, dists_n |-> <<>>, labels |-> <<>>]

-----------------------------------------------------------------------------
(* Per-batch statistics of train_contrastive / validate_contrastive *)

PredictionLeq(d, threshold) ==
    IF RatLess(d, threshold) \/ d = threshold THEN 1 ELSE 0

\* predictions = (dists < threshold).float()
Prediction(d, threshold) == IF RatLess(d, threshold) THEN 1 ELSE 0

\* (predictions == labels.squeeze().float()), one element
IsCorrect(prediction, label) == IF prediction = label THEN 1 ELSE 0

\* (predictions == labels.squeeze().float()).sum().item()
BatchCorrect(dists, labels, threshold) ==
    SumInt([i \in DOMAIN dists |->
              IsCorrect(Prediction(dists[i], threshold), labels[i])],
           Len(dists))

\* negative_pair_mask = (labels == 0).float(), one element
NegativePairMask(label) == IF label = 0 THEN 1 ELSE 0

\* negative_pair_mask.sum().item()
BatchNegativePairs(labels) ==
    SumInt([i \in DOMAIN labels |-> NegativePairMask(labels[i])], Len(labels))

\* ((dists < criterion.margin).float() * negative_pair_mask).sum().item()
BatchNegativeBelow(dists, labels, m) ==
    SumInt([i \in DOMAIN dists |->
              Prediction(dists[i], m) * NegativePairMask(labels[i])],
           Len(dists))

-----------------------------------------------------------------------------
(* Margin adaptation at the end of train_contrastive *)

GrowFactor == <<10, 9>>

ShrinkFactor95 == <<19, 20>>

\* criterion.margin *= 0.9
ShrinkFactor == <<9, 10>>

ShrinkMargin(m) == RatMul(m, ShrinkFactor)

UnguardedDenominator(total) == <<total, 0>>

\* total_negative_pairs + 1e-10.  The value a + b * 1e-10 is the pair <<a, b>>;
\* 10^10 does not fit TLC's integers, and every a below is an integer while
\* 0 < b * 1e-10 < 1, so such values compare lexicographically.
GuardedDenominator(total) == <<total, 1>>

EpsLess(x, y) == x[1] < y[1] \/ (x[1] = y[1] /\ x[2] < y[2])

\* negative_pairs_below_margin / den > 0.3 for den > 0: 3 * den < 10 * below
ProportionExceeds(below, den) ==
    EpsLess(<<3 * den[1], 3 * den[2]>>, <<10 * below, 0>>)

-----------------------------------------------------------------------------
(* Per-sample statistics of train_triplet / validate_triplet *)

\* pred_diff = (dists_p < dists_n).float()
PredDiff(dp, dn) == IF RatLess(dp, dn) THEN 1 ELSE 0

TripletPredictionIsPredDiff(pred_diff, label) == pred_diff

\* predictions = pred_diff * labels + (1 - pred_diff) * (1 - labels)
TripletPrediction(pred_diff, label) ==
    pred_diff * label + (1 - pred_diff) * (1 - label)

TripletCorrect(dp, dn, label) ==
    IsCorrect(TripletPrediction(PredDiff(dp, dn), label), label)

BatchTripletCorrect(dists_p, dists_n, labels) ==
    SumInt([i \in DOMAIN labels |->
              TripletCorrect(dists_p[i], dists_n[i], labels[i])],
           Len(labels))

-----------------------------------------------------------------------------
(* Groups of variables *)

cfgVars == <<variant, caller, epochs, train_size, val_size>>
driverVars == <<epoch, best_score, checkpoint, saves, writer>>
statVars == <<remaining, batch, train_loss_lis, total_loss, n_batches,
              correct_predictions, total_samples,
              negative_pairs_below_margin, total_negative_pairs, thresholds>>
resultVars == <<train_batch_loss, train_batch_acc, val_batch_loss, val_batch_acc>>
lossVars == <<lossIn, lossOut>>

\* The first lines of a train_* / validate_* call on a loader of `size` samples:
\* the accumulators start at zero and the loader starts a fresh pass.
EnterStep(size) ==
    /\ remaining' = size
    /\ batch' = NoBatch
    /\ train_loss_lis' = <<>>
    /\ total_loss' = Zero
    /\ n_batches' = 0
    /\ correct_predictions' = 0
    /\ total_samples' = 0
    /\ negative_pairs_below_margin' = 0
    /\ total_negative_pairs' = 0
    /\ thresholds' = {}

\* An uncaught ZeroDivisionError: it propagates out of main_*, the process ends.
Raise(site) ==
    /\ pc' = "raised"
    /\ raised' = site
    /\ UNCHANGED <<cfgVars, driverVars, statVars, resultVars, lossVars,
                   margin, margin_before>>

-----------------------------------------------------------------------------
(* train_contrastive *)

\* one iteration of `for batch in tqdm(train_loader)`
TrainContrastiveBatch ==
    /\ pc = "train" /\ variant = "contrastive" /\ remaining > 0
    /\ \E n \in 1..remaining :
       \E dists \in [1..n -> Dists], labels \in [1..n -> Labels] :
          LET loss == Forward(dists, labels, margin)
              threshold == margin
          IN  /\ batch' = [dists |-> dists, dists_n |-> <<>>, labels |-> labels]
              /\ remaining' = remaining - n
              /\ n_batches' = n_batches + 1
              /\ train_loss_lis' = Append(train_loss_lis, loss)
              /\ thresholds' = thresholds \cup {threshold}
              /\ correct_predictions' =
                     correct_predictions + BatchCorrect(dists, labels, threshold)
              /\ total_samples' = total_samples + n
              /\ total_negative_pairs' =
                     total_negative_pairs + BatchNegativePairs(labels)
              /\ negative_pairs_below_margin' =
                     negative_pairs_below_margin
                         + BatchNegativeBelow(dists, labels, margin)
    /\ UNCHANGED <<cfgVars, driverVars, resultVars, lossVars, pc, margin,
                   margin_before, raised, total_loss>>

\* what the caller does with the returned (loss, accuracy) of a train_* call:
\* main_* stores it and calls validate_*, whose first lines run
TrainReturn(loss, accuracy) ==
    /\ train_batch_loss' = loss
    /\ train_batch_acc' = accuracy
    /\ IF caller = "main"
       THEN pc' = "validate" /\ EnterStep(val_size)
       ELSE pc' = "returned" /\ UNCHANGED statVars
    /\ UNCHANGED <<cfgVars, driverVars, lossVars, val_batch_loss, val_batch_acc,
                   margin_before, raised>>

\* after the loop: the epoch's mean loss and accuracy, then the margin adaptation
TrainContrastiveEnd ==
    /\ pc = "train" /\ variant = "contrastive" /\ remaining = 0
    /\ IF Len(train_loss_lis) = 0
       THEN Raise("train_loss")
       ELSE IF total_samples = 0
       THEN Raise("accuracy")
       ELSE LET train_loss ==
                    RatDivInt(SumRat(train_loss_lis, Len(train_loss_lis)),
                              Len(train_loss_lis))
                accuracy == Rat(correct_predictions, total_samples)
                den == GuardedDenominator(total_negative_pairs)
            IN  IF den = <<0, 0>>
                THEN Raise("proportion_negative_below_margin")
                ELSE /\ margin' =
                            IF ProportionExceeds(negative_pairs_below_margin, den)
                            THEN ShrinkMargin(margin)
                            ELSE margin
                     /\ TrainReturn(train_loss, accuracy)

-----------------------------------------------------------------------------
(* validate_contrastive *)

ValidateContrastiveBatch ==
    /\ pc = "validate" /\ variant = "contrastive" /\ remaining > 0
    /\ \E n \in 1..remaining :
       \E dists \in [1..n -> Dists], labels \in [1..n -> Labels] :
          LET loss == Forward(dists, labels, margin)
              threshold == margin
          IN  /\ batch' = [dists |-> dists, dists_n |-> <<>>, labels |-> labels]
              /\ remaining' = remaining - n
              /\ n_batches' = n_batches + 1
              /\ total_loss' = RatAdd(total_loss, loss)
              /\ thresholds' = thresholds \cup {threshold}
              /\ correct_predictions' =
                     correct_predictions + BatchCorrect(dists, labels, threshold)
              /\ total_samples' = total_samples + n
    /\ UNCHANGED <<cfgVars, driverVars, resultVars, lossVars, pc, margin,
                   margin_before, raised, train_loss_lis,
                   total_negative_pairs, negative_pairs_below_margin>>

\* what the caller does with the returned (loss, accuracy) of a validate_* call
ValidateReturn(loss, accuracy) ==
    /\ val_batch_loss' = loss
    /\ val_batch_acc' = accuracy
    /\ pc' = IF caller = "main" THEN "check" ELSE "returned"
    /\ UNCHANGED <<cfgVars, driverVars, statVars, lossVars, train_batch_loss,
                   train_batch_acc, margin, margin_before, raised>>

\* after the loop; len(val_loader) is the number of batches the loader yields
ValidateContrastiveEnd ==
    /\ pc = "validate" /\ variant = "contrastive" /\ remaining = 0
    /\ IF n_batches = 0
       THEN Raise("average_loss")
       ELSE IF total_samples = 0
       THEN Raise("val_acc")
       ELSE ValidateReturn(RatDivInt(total_loss, n_batches),
                           Rat(correct_predictions, total_samples))

-----------------------------------------------------------------------------
(* train_triplet *)

TrainTripletBatch ==
    /\ pc = "train" /\ variant = "triplet" /\ remaining > 0
    /\ \E n \in 1..remaining :
       \E dists_p \in [1..n -> TripletDists], dists_n \in [1..n -> TripletDists],
          labels \in [1..n -> Labels], loss \in TripletLossVals :
          /\ batch' = [dists |-> dists_p, dists_n |-> dists_n, labels |-> labels]
          /\ remaining' = remaining - n
          /\ n_batches' = n_batches + 1
          /\ train_loss_lis' = Append(train_loss_lis, loss)
          /\ correct_predictions' =
                 correct_predictions + BatchTripletCorrect(dists_p, dists_n, labels)
          /\ total_samples' = total_samples + n
    /\ UNCHANGED <<cfgVars, driverVars, resultVars, lossVars, pc, margin,
                   margin_before, raised, total_loss, thresholds,
                   total_negative_pairs, negative_pairs_below_margin>>

TrainTripletEnd ==
    /\ pc = "train" /\ variant = "triplet" /\ remaining = 0
    /\ IF Len(train_loss_lis) = 0
       THEN Raise("train_loss")
       ELSE IF total_samples = 0
       THEN Raise("accuracy")
       ELSE /\ TrainReturn(RatDivInt(SumRat(train_loss_lis, Len(train_loss_lis)),
                                     Len(train_loss_lis)),
                           Rat(correct_predictions, total_samples))
            /\ UNCHANGED margin

-----------------------------------------------------------------------------
(* validate_triplet *)

ValidateTripletBatch ==
    /\ pc = "validate" /\ variant = "triplet" /\ remaining > 0
    /\ \E n \in 1..remaining :
       \E dists_p \in [1..n -> TripletDists], dists_n \in [1..n -> TripletDists],
          labels \in [1..n -> Labels], loss \in TripletLossVals :
          /\ batch' = [dists |-> dists_p, dists_n |-> dists_n, labels |-> labels]
          /\ remaining' = remaining - n
          /\ n_batches' = n_batches + 1
          /\ total_loss' = RatAdd(total_loss, loss)
          /\ correct_predictions' =
                 correct_predictions + BatchTripletCorrect(dists_p, dists_n, labels)
          /\ total_samples' = total_samples + n
    /\ UNCHANGED <<cfgVars, driverVars, resultVars, lossVars, pc, margin,
                   margin_before, raised, train_loss_lis, thresholds,
                   total_negative_pairs, negative_pairs_below_margin>>

ValidateTripletEnd ==
    /\ pc = "validate" /\ variant = "triplet" /\ remaining = 0
    /\ IF n_batches = 0
       THEN Raise("average_loss")
       ELSE IF total_samples = 0
       THEN Raise("val_acc")
       ELSE ValidateReturn(RatDivInt(total_loss, n_batches),
                           Rat(correct_predictions, total_samples))

-----------------------------------------------------------------------------
(* main_contrastive / main_triplet: the two drivers are the same code around *)
(* their own train_* / validate_* pair                                       *)

ImprovedOrEqual(val_acc, best) == ~RatLess(val_acc, best)

\* val_batch_acc > best_score
Improved(val_acc, best) == RatLess(best, val_acc)

\* `for epoch in range(epochs)` has another index: the body starts with the
\* train_* call, whose first lines run.  Between iterations `epoch` holds the
\* index the loop takes next.
MainEpochBegin ==
    /\ pc = "start" /\ epoch < epochs
    /\ pc' = "train"
    /\ margin_before' = margin
    /\ EnterStep(train_size)
    /\ UNCHANGED <<cfgVars, driverVars, resultVars, lossVars, margin, raised>>

\* if val_batch_acc > best_score: ... torch.save(...) else: ...
MainImprovementCheck ==
    /\ pc = "check"
    /\ IF Improved(val_batch_acc, best_score)
       THEN /\ best_score' = val_batch_acc
            /\ checkpoint' = [epoch |-> epoch,
                              train_loss |-> train_batch_loss,
                              val_acc |-> val_batch_acc]
            /\ saves' = saves + 1
       ELSE UNCHANGED <<best_score, checkpoint, saves>>
    /\ pc' = "log"
    /\ UNCHANGED <<cfgVars, statVars, resultVars, lossVars, epoch, writer,
                   margin, margin_before, raised>>

\* the four writer.add_scalar calls, which end the loop body
MainWriteScalars ==
    /\ pc = "log"
    /\ writer' = writer \o << <<"Training Loss", epoch>>,
                              <<"Training Score", epoch>>,
                              <<"Validation Loss", epoch>>,
                              <<"Validation Score", epoch>> >>
    /\ epoch' = epoch + 1
    /\ pc' = "start"
    /\ UNCHANGED <<cfgVars, statVars, resultVars, lossVars, best_score,
                   checkpoint, saves,
                   margin, margin_before, raised>>

\* range(epochs) is exhausted: writer.close()
MainClose ==
    /\ pc = "start" /\ epoch = epochs
    /\ pc' = "done"
    /\ UNCHANGED <<cfgVars, driverVars, statVars, resultVars, lossVars,
                   margin, margin_before, raised>>

-----------------------------------------------------------------------------
(* ContrastiveLoss.forward called on its own, distances and margin on an *)
(* integer grid                                                           *)

ForwardCall ==
    /\ pc = "loss"
    /\ \E n \in 1..MaxLossBatch, m \in 1..MaxM :
       \E ds \in [1..n -> 0..MaxD], labels \in [1..n -> Labels] :
          LET dists == [i \in 1..n |-> FromInt(ds[i])]
          IN  /\ lossIn' = [dists |-> dists, labels |-> labels, margin |-> FromInt(m)]
              /\ lossOut' = [terms |-> LossTerms(dists, labels, FromInt(m)),
                             loss |-> Forward(dists, labels, FromInt(m))]
    /\ pc' = "returned"
    /\ UNCHANGED <<cfgVars, driverVars, statVars, resultVars, margin,
                   margin_before, raised>>

-----------------------------------------------------------------------------
(* Specifications *)

InitCommon ==
    /\ epoch = 0
    /\ best_score = Zero
    /\ checkpoint = None
    /\ saves = 0
    /\ writer = <<>>
    /\ batch = NoBatch
    /\ train_loss_lis = <<>>
    /\ total_loss = Zero
    /\ n_batches = 0
    /\ correct_predictions = 0
    /\ total_samples = 0
    /\ negative_pairs_below_margin = 0
    /\ total_negative_pairs = 0
    /\ thresholds = {}
    /\ train_batch_loss = None /\ train_batch_acc = None
    /\ val_batch_loss = None /\ val_batch_acc = None
    /\ raised = "none"
    /\ lossIn = None
    /\ lossOut = None

\* main_contrastive or main_triplet, from its call
Init ==
    /\ InitCommon
    /\ variant \in {"contrastive", "triplet"}
    /\ caller = "main"
    /\ epochs \in 0..MaxEpochs
    /\ train_size \in 0..MaxPairs
    /\ val_size \in 0..MaxPairs
    /\ pc = "start"
    /\ margin = InitialMargin
    /\ margin_before = InitialMargin
    /\ remaining = 0

StepNext ==
    \/ TrainContrastiveBatch
    \/ TrainContrastiveEnd
    \/ ValidateContrastiveBatch
    \/ ValidateContrastiveEnd
    \/ TrainTripletBatch
    \/ TrainTripletEnd
    \/ ValidateTripletBatch
    \/ ValidateTripletEnd

Next ==
    \/ MainEpochBegin
    \/ StepNext
    \/ MainImprovementCheck
    \/ MainWriteScalars
    \/ MainClose

Spec == Init /\ [][Next]_vars

\* the margins criterion.margin can hold when a step is entered
StartMargins == {InitialMargin, ShrinkMargin(InitialMargin)}

\* one call of train_contrastive, validate_contrastive, train_triplet or
\* validate_triplet on its own, on a loader of up to MaxPassPairs samples
InitPass ==
    /\ InitCommon
    /\ variant \in {"contrastive", "triplet"}
    /\ caller = "direct"
    /\ epochs = 1
    /\ \E size \in 0..MaxPassPairs :
          train_size = size /\ val_size = size /\ remaining = size
    /\ pc \in {"train", "validate"}
    /\ margin \in StartMargins
    /\ margin_before = margin

SpecPass == InitPass /\ [][StepNext]_vars

\* ContrastiveLoss.forward on its own
InitLoss ==
    /\ InitCommon
    /\ variant = "contrastive"
    /\ caller = "direct"
    /\ epochs = 0 /\ train_size = 0 /\ val_size = 0 /\ remaining = 0
    /\ pc = "loss"
    /\ margin = InitialMargin
    /\ margin_before = InitialMargin

SpecLoss == InitLoss /\ [][ForwardCall]_vars

\* A batch of n pairs, `neg` of them with label 0, `below` of these at
\* distance 0 (below every margin), `posBelow` of the label-1 pairs at
\* distance 0, every other pair at distance 1/2 (below no margin).
CompositionDists(n, neg, below, posBelow) ==
    [i \in 1..n |->
        IF i <= below \/ (neg < i /\ i <= neg + posBelow)
        THEN Zero ELSE InitialMargin]

CompositionLabels(n, neg) == [i \in 1..n |-> IF i <= neg THEN 0 ELSE 1]

\* train_contrastive on its own, at the end of its loop: the loader was empty,
\* or it yielded one batch of up to MaxEpochPairs pairs whose statistics the
\* accumulators hold
InitAdapt ==
    /\ variant = "contrastive"
    /\ caller = "direct"
    /\ epochs = 1
    /\ pc = "train"
    /\ remaining = 0
    /\ margin \in StartMargins
    /\ margin_before = margin
    /\ epoch = 0 /\ best_score = Zero /\ checkpoint = None /\ saves = 0
    /\ writer = <<>>
    /\ total_loss = Zero
    /\ train_batch_loss = None /\ train_batch_acc = None
    /\ val_batch_loss = None /\ val_batch_acc = None
    /\ raised = "none"
    /\ lossIn = None /\ lossOut = None
    /\ \E n \in 0..MaxEpochPairs :
       \E neg \in 0..n :
       \E below \in 0..neg, posBelow \in 0..(n - neg) :
          LET dists == CompositionDists(n, neg, below, posBelow)
              labels == CompositionLabels(n, neg)
          IN  /\ train_size = n /\ val_size = n
              /\ total_samples = n
              /\ IF n = 0
                 THEN /\ batch = NoBatch
                      /\ n_batches = 0
                      /\ train_loss_lis = <<>>
                      /\ thresholds = {}
                 ELSE /\ batch = [dists |-> dists, dists_n |-> <<>>,
                                  labels |-> labels]
                      /\ n_batches = 1
                      /\ train_loss_lis = <<Forward(dists, labels, margin)>>
                      /\ thresholds = {margin}
              /\ correct_predictions = BatchCorrect(dists, labels, margin)
              /\ total_negative_pairs = BatchNegativePairs(labels)
              /\ negative_pairs_below_margin =
                     BatchNegativeBelow(dists, labels, margin)

SpecAdapt == InitAdapt /\ [][TrainContrastiveEnd]_vars

-----------------------------------------------------------------------------
(* Properties *)

\* a < b for rationals with positive denominators, by cross-multiplication
Lt(a, b) == a[1] * b[2] < b[1] * a[2]

\* C1 (Spec): in the step that follows validation, torch.save is called if and
\* only if the epoch's validation accuracy is strictly greater than best_score;
\* in exactly that case best_score becomes that accuracy and the checkpoint is
\* the one of this epoch; otherwise, and in every other step, best_score and
\* the checkpoint stay as they are.  best_score starts at 0.
C1_CheckpointIffImproved ==
    [][ /\ pc = "check" =>
              IF Lt(best_score, val_batch_acc)
              THEN /\ saves' = saves + 1
                   /\ best_score' = val_batch_acc
                   /\ checkpoint' = [epoch |-> epoch,
                                     train_loss |-> train_batch_loss,
                                     val_acc |-> val_batch_acc]
              ELSE /\ saves' = saves
                   /\ best_score' = best_score
                   /\ checkpoint' = checkpoint
        /\ pc # "check" => UNCHANGED <<saves, best_score, checkpoint>>
        /\ (pc = "start" /\ epoch = 0) => (best_score = Zero /\ saves = 0)
      ]_vars

\* C1 witness: the second epoch's validation accuracy equals the best so far,
\* which the first epoch set and saved; nothing was written in the second.
C1_Witness ==
    /\ pc = "log" /\ epoch = 1
    /\ saves = 1 /\ checkpoint # None /\ checkpoint.epoch = 0
    /\ val_batch_acc = best_score /\ best_score = One

C2_ShrinkReached ==
    /\ pc = "returned"
    /\ total_negative_pairs = 10 /\ negative_pairs_below_margin = 4
    /\ margin = Rat(9 * margin_before[1], 10 * margin_before[2])

\* C3 (SpecAdapt): an epoch of train_contrastive without negative pairs ends
\* without a ZeroDivisionError from the margin adaptation and with the margin
\* it was entered with.
C3_NoNegativePairs ==
    (pc \in {"returned", "raised"} /\ total_negative_pairs = 0) =>
        /\ raised # "proportion_negative_below_margin"
        /\ margin = margin_before

\* C3 witness: train_contrastive returned from an epoch of label-1 pairs only.
C3_Witness ==
    /\ pc = "returned" /\ raised = "none"
    /\ total_samples > 0 /\ total_negative_pairs = 0
    /\ train_batch_acc # None

\* C4 (SpecPass), as claimed: a step whose loader yields no batch ends without
\* raising.
C4_EmptyLoaderDoesNotRaise ==
    train_size = 0 => pc # "raised"

\* the number of pairs of the batch for which (distance < m) == label
ManualCorrect(b, m) ==
    Cardinality({i \in DOMAIN b.labels :
                    (IF Lt(b.dists[i], m) THEN 1 ELSE 0) = b.labels[i]})

\* C5 (SpecPass): every batch of train_contrastive / validate_contrastive adds
\* to correct_predictions the number of its pairs with
\* (distance < margin) == label, for the margin current at that batch, and its
\* size to total_samples; the accuracy returned is correct_predictions /
\* total_samples.
C5_AccuracyAccumulation ==
    [][ variant = "contrastive" =>
          /\ n_batches' = n_batches + 1 =>
                /\ correct_predictions' =
                       correct_predictions + ManualCorrect(batch', margin)
                /\ total_samples' = total_samples + Len(batch'.labels)
          /\ (pc = "train" /\ pc' = "returned") =>
                train_batch_acc'[1] * total_samples
                    = correct_predictions * train_batch_acc'[2]
          /\ (pc = "validate" /\ pc' = "returned") =>
                val_batch_acc'[1] * total_samples
                    = correct_predictions * val_batch_acc'[2]
      ]_vars

\* C5 witness: a contrastive step returned after two batches, some pairs
\* counted correct and some not, one of them at a distance equal to the margin.
C5_Witness ==
    /\ variant = "contrastive" /\ pc = "returned"
    /\ n_batches = 2
    /\ 0 < correct_predictions /\ correct_predictions < total_samples
    /\ \E i \in DOMAIN batch.dists : batch.dists[i] = margin

IntMax0(x) == IF x < 0 THEN 0 ELSE x

\* C6 (SpecLoss): for integer distances d >= 0 and margins m > 0, the term of
\* a pair is (1-label)*d^2 + label*max(m-d,0)^2: 0 for a label-1 pair with
\* d >= m and positive for one with d < m; 0 for a label-0 pair with d = 0 and
\* strictly larger for every larger d; the loss is the mean of the terms.
C6_ContrastiveLossTerms ==
    lossOut # None =>
        LET n == Len(lossIn.dists)
            d(i) == lossIn.dists[i][1]
            l(i) == lossIn.labels[i]
            m == lossIn.margin[1]
            t(i) == lossOut.terms[i]
        IN  /\ \A i \in 1..n :
                 /\ t(i) = <<(1 - l(i)) * d(i) * d(i)
                               + l(i) * IntMax0(m - d(i)) * IntMax0(m - d(i)), 1>>
                 /\ (l(i) = 1 /\ d(i) >= m) => t(i) = Zero
                 /\ (l(i) = 1 /\ d(i) < m) => Lt(Zero, t(i))
                 /\ (l(i) = 0 /\ d(i) = 0) => t(i) = Zero
                 /\ \A j \in 1..n :
                        (l(i) = 0 /\ l(j) = 0 /\ d(i) < d(j)) => Lt(t(i), t(j))
            /\ lossOut.loss[1] * n
                   = SumInt([i \in 1..n |-> t(i)[1]], n) * lossOut.loss[2]

\* C6 witness: a batch with a label-1 pair beyond the margin and a label-0
\* pair at a positive distance.
C6_Witness ==
    /\ lossOut # None
    /\ \E i, j \in DOMAIN lossIn.dists :
          /\ lossIn.labels[i] = 1 /\ lossIn.dists[i][1] > lossIn.margin[1]
          /\ lossIn.labels[j] = 0 /\ lossIn.dists[j][1] > 0
          /\ lossOut.terms[i] = Zero /\ Lt(Zero, lossOut.terms[j])

\* the label value whose pairs the loss penalises for a distance below the
\* margin, and only for that
PenalisedBelowMargin(m) ==
    {l \in Labels : \A d \in Dists :
        IF Lt(d, m) THEN Lt(Zero, LossTerm(d, l, m)) ELSE LossTerm(d, l, m) = Zero}

\* C7 (SpecPass), as claimed: the label value the loss penalises below the
\* margin (1) is the value train_contrastive predicts for a pair iff its
\* distance >= margin, and the value whose pairs it counts as negative pairs.
C7_LabelConvention ==
    (variant = "contrastive" /\ pc = "train" /\ n_batches > 0) =>
        \A l \in PenalisedBelowMargin(margin) :
        \A i \in DOMAIN batch.labels :
            /\ Prediction(batch.dists[i], margin) = l
                   <=> ~Lt(batch.dists[i], margin)
            /\ NegativePairMask(batch.labels[i]) = 1 <=> batch.labels[i] = l

\* the samples of the batch with d(anchor, positive) < d(anchor, negative)
CloserToPositive(b) ==
    {i \in DOMAIN b.labels : Lt(b.dists[i], b.dists_n[i])}

\* C8 (SpecPass), as claimed: a label-1 sample is counted correct iff
\* d(a,p) < d(a,n), a label-0 sample iff not d(a,p) < d(a,n).
C8_LabelDecidesCorrect ==
    [][ (variant = "triplet" /\ n_batches' = n_batches + 1) =>
           correct_predictions' = correct_predictions
               + Cardinality({i \in DOMAIN batch'.labels :
                                 batch'.labels[i] = 1
                                     <=> i \in CloserToPositive(batch')})
      ]_vars

\* C8 (SpecPass), as amended: a sample of train_triplet / validate_triplet is
\* counted correct iff d(a,p) < d(a,n), whatever its label.
C8_OrderingDecidesCorrect ==
    [][ (variant = "triplet" /\ n_batches' = n_batches + 1) =>
           /\ correct_predictions' = correct_predictions
                  + Cardinality(CloserToPositive(batch'))
           /\ total_samples' = total_samples + Len(batch'.labels)
      ]_vars

\* C8 witness: a label-0 sample with d(a,p) < d(a,n) was counted correct and a
\* label-0 sample without was not.
C8_Witness ==
    /\ variant = "triplet" /\ n_batches = 1 /\ Len(batch.labels) = 2
    /\ batch.labels[1] = 0 /\ Lt(batch.dists[1], batch.dists_n[1])
    /\ batch.labels[2] = 0 /\ ~Lt(batch.dists[2], batch.dists_n[2])
    /\ correct_predictions = 1

C10_RunsAllEpochs ==
    /\ pc # "raised"
    /\ pc = "done" =>
          /\ epoch = epochs
          /\ Len(writer) = 4 * epochs
          /\ \A i \in 1..Len(writer) : writer[i][2] = (i - 1) \div 4

====
